---- MODULE Spec2Model ----
(***************************************************************************)
(* A model of muchopper/web/__init__.py: the atomic file writer            *)
(* (safe_writer), the static page cache (render_static_template), the      *)
(* paginated room listing (room_page) and the keyword search               *)
(* (perform_search).                                                       *)
(*                                                                         *)
(* Text is modelled as sequences of one-character strings, so that         *)
(* str.startswith, shlex.split, str.strip and ilike are computed           *)
(* character by character.                                                 *)
(***************************************************************************)
EXTENDS Naturals, Integers, Sequences, FiniteSets, TLC

\* An optional value: <<>> when there is none, <<v>> when there is one.
None == <<>>
Some(v) == <<v>>

(***************************************************************************)
(* pathlib                                                                 *)
(***************************************************************************)

\* A component finished by "/" or by the end of the text; "" and "." vanish.
Component(cur) == IF cur = <<>> \/ cur = <<".">> THEN <<>> ELSE <<cur>>

RECURSIVE SplitFrom(_, _, _)
SplitFrom(s, i, cur) ==
    IF i > Len(s) THEN Component(cur)
    ELSE IF s[i] = "/" THEN Component(cur) \o SplitFrom(s, i + 1, <<>>)
    ELSE SplitFrom(s, i + 1, Append(cur, s[i]))

\* pathlib.Path(text): the anchor and the components; ".." is kept as it is.
Path(s) == [abs |-> (Len(s) > 0 /\ s[1] = "/"), parts |-> SplitFrom(s, 1, <<>>)]

RECURSIVE JoinParts(_)
JoinParts(parts) ==
    IF parts = <<>> THEN <<>>
    ELSE IF Len(parts) = 1 THEN parts[1]
    ELSE parts[1] \o <<"/">> \o JoinParts(Tail(parts))

\* str(path)
Str(p) ==
    IF p.parts = <<>> THEN (IF p.abs THEN <<"/">> ELSE <<".">>)
    ELSE (IF p.abs THEN <<"/">> ELSE <<>>) \o JoinParts(p.parts)

\* a / b: an absolute right operand replaces the left one.
Join(p, q) == IF q.abs THEN q ELSE [abs |-> p.abs, parts |-> p.parts \o q.parts]

\* The working directory of the process.
Cwd == Path(<<"/", "w">>)

\* Path.absolute(): prepends the working directory, normalises nothing.
Absolute(p) == IF p.abs THEN p ELSE Join(Cwd, p)

\* str.startswith
StartsWith(s, t) == Len(t) <= Len(s) /\ SubSeq(s, 1, Len(t)) = t

\* What the kernel does with the components when the path is opened: ".."
\* steps to the parent directory (the root is its own parent).
RECURSIVE Walk(_, _)
Walk(done, parts) ==
    IF parts = <<>> THEN done
    ELSE IF parts[1] = <<".", ".">>
         THEN Walk(IF done = <<>> THEN <<>> ELSE SubSeq(done, 1, Len(done) - 1),
                   Tail(parts))
         ELSE Walk(Append(done, parts[1]), Tail(parts))

Resolve(p) == [abs |-> TRUE, parts |-> Walk(<<>>, Absolute(p).parts)]

\* The file a path names.
Loc(p) == Str(Resolve(p))

\* Whether the file a path names lies under the directory root names.
Inside(p, root) ==
    LET f == Resolve(p).parts
        r == Resolve(root).parts
    IN  Len(r) < Len(f) /\ SubSeq(f, 1, Len(r)) = r

(***************************************************************************)
(* The configuration and the inputs of the cache                           *)
(***************************************************************************)

\* app.config["STATIC_PAGE_CACHE"]: unset (KeyError), an absolute or a relative
\* directory.
CacheRoots == {None, Some(<<"/", "c">>), Some(<<"c">>)}

\* The logical paths requested: a page, a traversal, an absolute path.
LogicalPaths == {<<"a">>, <<".", ".", "/", "s">>, <<"/", "s">>}

\* The files the model follows: the cached page and the file outside the root.
Locs == {<<"/", "c", "/", "a">>, <<"/", "s">>}

\* What render_template may return (it need not return the same twice), and
\* what a file written before the process started holds.
RenderOutputs == {<<"x", "x">>, <<"y", "y">>}
OldContent == <<"o", "o">>
Complete == RenderOutputs \cup {OldContent}

\* The file outside the cache root: it is there from the start.
OutsideFile == <<"/", "s">>

Procs == {"p1", "p2"}
Main == "p1"

MaxPurges == 1
MaxCrashes == 1
MaxFailures == 1
NumTmpNames == 2
TmpNames == 1..NumTmpNames

\* A directory entry: whether the file exists, what the kernel holds of it
\* (data) and what of it is on the disk (dur).
Absent == [exists |-> FALSE, data |-> <<>>, dur |-> <<>>]
File(bytes) == [exists |-> TRUE, data |-> bytes, dur |-> bytes]
Created == [exists |-> TRUE, data |-> <<>>, dur |-> <<>>]

Prefixes(s) == {SubSeq(s, 1, k) : k \in 0..Len(s)}

NoResponse == [kind |-> "none", body |-> <<>>]
Body(bytes) == [kind |-> "body", body |-> bytes]
NotFound == [kind |-> "error", body |-> <<>>]

VARIABLES
    debug,             \* app.debug
    config,            \* app.config["STATIC_PAGE_CACHE"], or None
    STATIC_RENDERED,   \* the tracked set: str(rendered_path) of each member
    dest,              \* the directory as the kernel shows it: Locs -> entry
    destDur,           \* the directory entries that are on the disk
    tmp,               \* the temporary files, by name
    pc,                \* where each request or writer stands
    path,              \* the logical path of the request
    destpath,          \* safe_writer's destpath
    content,           \* what render_template returned; the bytes supplied
    extra_paranoia,    \* safe_writer's extra_paranoia
    buf,               \* tmpfile's buffer in the process
    tmpname,           \* tmpfile.name (0: none)
    exc,               \* the step of safe_writer that raised, or "none"
    resp,              \* what the request returns
    pre,               \* history: the destination when safe_writer was entered
    lastRename,        \* history: the bytes supplied to the last rename onto a file
    persisted,         \* history: paths some finished request has persisted
    npurge,            \* files removed from outside so far
    ncrash,            \* crashes so far
    nfail,             \* I/O failures so far
    nrows,             \* the number of rows of the MUC table
    op,                \* the query operation whose result is held
    args,              \* its arguments
    result             \* its result

fsVars == <<dest, destDur, tmp>>
procVars == <<pc, path, destpath, content, extra_paranoia, buf, tmpname, exc,
              resp, pre>>
cacheVars == <<debug, config, STATIC_RENDERED, persisted, npurge>>
queryVars == <<nrows, op, args, result>>
vars == <<fsVars, procVars, cacheVars, lastRename, ncrash, nfail, queryVars>>

NoPath == Path(<<>>)

(***************************************************************************)
(* safe_writer                                                             *)
(***************************************************************************)

\* tempfile.NamedTemporaryFile creates its file under a name no file of the
\* directory has (O_EXCL); 0 when every name is taken (FileExistsError).
ReusedTmpName(used) == 1

FreshTmpName(used) ==
    IF TmpNames \subseteq used THEN 0
    ELSE CHOOSE n \in TmpNames \ used : \A m \in TmpNames \ used : n <= m

\* os.unlink(tmpfile.name)
UnlinkForgotten(files, n) == files

Unlink(files, n) == [files EXCEPT ![n] = Absent]

\* Bytes reaching the kernel for an open file.
Appended(f, bytes) == IF f.exists THEN [f EXCEPT !.data = @ \o bytes] ELSE f

\* os.fsync(tmpfile.fileno()): what the kernel holds is on the disk.
FsyncSkipped(f) == f

Fsynced(f) == IF f.exists THEN [f EXCEPT !.dur = f.data] ELSE f

\* Entering the with statement: the arguments are bound (lines 67, 92).
SwEnter(p, d, c, paranoia) ==
    /\ pc' = [pc EXCEPT ![p] = "open"]
    /\ destpath' = [destpath EXCEPT ![p] = d]
    /\ content' = [content EXCEPT ![p] = c]
    /\ extra_paranoia' = [extra_paranoia EXCEPT ![p] = paranoia]
    /\ UNCHANGED <<buf, tmpname, exc>>

\* A step of safe_writer raises: the exception leaves the with statement.
Raise(p, step) ==
    /\ nfail < MaxFailures
    /\ nfail' = nfail + 1
    /\ pc' = [pc EXCEPT ![p] = "sw_err"]
    /\ exc' = [exc EXCEPT ![p] = step]
    /\ buf' = [buf EXCEPT ![p] = <<>>]

\* tempfile.NamedTemporaryFile(mode, dir=destpath.parent, delete=False)
SwOpen(p) ==
    /\ pc[p] = "open"
    /\ LET n == FreshTmpName({m \in TmpNames : tmp[m].exists})
       IN  \/ /\ n # 0
              /\ tmp' = [tmp EXCEPT ![n] = Created]
              /\ tmpname' = [tmpname EXCEPT ![p] = n]
              /\ pc' = [pc EXCEPT ![p] = "body"]
              /\ UNCHANGED <<buf, exc, nfail>>
           \/ /\ Raise(p, "open")
              /\ UNCHANGED <<tmp, tmpname>>
    /\ UNCHANGED <<dest, destDur, lastRename, path, destpath, content,
                   extra_paranoia, resp, pre, cacheVars, ncrash, queryVars>>

\* The body of the with statement writes the content: k bytes pass the buffer
\* and reach the kernel, the rest stays buffered; or the write raises, and the
\* except clause unlinks the temporary file and raises again.
SwBody(p) ==
    /\ pc[p] = "body"
    /\ \E k \in 0..Len(content[p]) :
         LET n == tmpname[p]
             written == [tmp EXCEPT ![n] = Appended(@, SubSeq(content[p], 1, k))]
         IN  \/ /\ tmp' = written
                /\ buf' = [buf EXCEPT ![p] = SubSeq(content[p], k + 1, Len(content[p]))]
                /\ pc' = [pc EXCEPT ![p] = "flush"]
                /\ UNCHANGED <<exc, nfail>>
             \/ /\ k < Len(content[p])
                /\ tmp' = Unlink(written, n)
                /\ Raise(p, "body")
    /\ UNCHANGED <<dest, destDur, lastRename, path, destpath, content,
                   extra_paranoia, tmpname, resp, pre, cacheVars, ncrash,
                   queryVars>>

\* tmpfile.flush()
SwFlush(p) ==
    /\ pc[p] = "flush"
    /\ \/ /\ tmp' = [tmp EXCEPT ![tmpname[p]] = Appended(@, buf[p])]
          /\ buf' = [buf EXCEPT ![p] = <<>>]
          /\ pc' = [pc EXCEPT ![p] = "fsync"]
          /\ UNCHANGED <<exc, nfail>>
       \/ /\ Raise(p, "flush")
          /\ UNCHANGED tmp
    /\ UNCHANGED <<dest, destDur, lastRename, path, destpath, content,
                   extra_paranoia, tmpname, resp, pre, cacheVars, ncrash,
                   queryVars>>

\* os.fsync(tmpfile.fileno())
SwFsync(p) ==
    /\ pc[p] = "fsync"
    /\ \/ /\ tmp' = [tmp EXCEPT ![tmpname[p]] = Fsynced(@)]
          /\ pc' = [pc EXCEPT ![p] = "replace"]
          /\ UNCHANGED <<exc, buf, nfail>>
       \/ /\ Raise(p, "fsync")
          /\ UNCHANGED tmp
    /\ UNCHANGED <<dest, destDur, lastRename, path, destpath, content,
                   extra_paranoia, tmpname, resp, pre, cacheVars, ncrash,
                   queryVars>>

\* os.replace(tmpfile.name, str(destpath)); nothing follows it: the parent
\* directory is not synced, whatever extra_paranoia is.
SwReplace(p) ==
    /\ pc[p] = "replace"
    /\ LET n == tmpname[p]
           l == Loc(destpath[p])
       IN  \/ /\ tmp[n].exists
              /\ dest' = [dest EXCEPT ![l] = tmp[n]]
              /\ tmp' = [tmp EXCEPT ![n] = Absent]
              /\ lastRename' = [lastRename EXCEPT ![l] = Some(content[p])]
              /\ pc' = [pc EXCEPT ![p] = "sw_ok"]
              /\ UNCHANGED <<exc, buf, nfail>>
           \/ /\ Raise(p, "replace")
              /\ UNCHANGED <<dest, tmp, lastRename>>
    /\ UNCHANGED <<destDur, path, destpath, content, extra_paranoia, tmpname,
                   resp, pre, cacheVars, ncrash, queryVars>>

SafeWriterStep(p) ==
    SwOpen(p) \/ SwBody(p) \/ SwFlush(p) \/ SwFsync(p) \/ SwReplace(p)

\* The request or the call is over: its locals are gone.
Forget(p) ==
    /\ pc' = [pc EXCEPT ![p] = "idle"]
    /\ path' = [path EXCEPT ![p] = <<>>]
    /\ destpath' = [destpath EXCEPT ![p] = NoPath]
    /\ content' = [content EXCEPT ![p] = <<>>]
    /\ extra_paranoia' = [extra_paranoia EXCEPT ![p] = FALSE]
    /\ buf' = [buf EXCEPT ![p] = <<>>]
    /\ tmpname' = [tmpname EXCEPT ![p] = 0]
    /\ exc' = [exc EXCEPT ![p] = "none"]
    /\ resp' = [resp EXCEPT ![p] = NoResponse]
    /\ pre' = [pre EXCEPT ![p] = Absent]

ProcInit ==
    /\ pc = [p \in Procs |-> "idle"]
    /\ path = [p \in Procs |-> <<>>]
    /\ destpath = [p \in Procs |-> NoPath]
    /\ content = [p \in Procs |-> <<>>]
    /\ extra_paranoia = [p \in Procs |-> FALSE]
    /\ buf = [p \in Procs |-> <<>>]
    /\ tmpname = [p \in Procs |-> 0]
    /\ exc = [p \in Procs |-> "none"]
    /\ resp = [p \in Procs |-> NoResponse]
    /\ pre = [p \in Procs |-> Absent]

\* The files present when the process starts: each is absent or holds what an
\* earlier run wrote, all of it on the disk.
FsInit ==
    /\ dest \in [Locs -> {Absent, File(OldContent)}]
    /\ dest[OutsideFile].exists
    /\ destDur = dest
    /\ tmp = [n \in TmpNames |-> Absent]
    /\ lastRename = [l \in Locs |-> None]
    /\ ncrash = 0
    /\ nfail = 0

QueryIdle ==
    /\ nrows = 0
    /\ op = "none"
    /\ args = <<>>
    /\ result = <<>>

CacheIdle ==
    /\ debug = FALSE
    /\ config = None
    /\ STATIC_RENDERED = {}
    /\ persisted = {}
    /\ npurge = 0

(***************************************************************************)
(* render_static_template                                                  *)
(***************************************************************************)

\* static_path = pathlib.Path(app.config["STATIC_PAGE_CACHE"])
StaticPath(cfg) == Path(cfg[1])

\* rendered_path = (static_path / path).absolute()
RenderedPath(cfg, lp) == Absolute(Join(StaticPath(cfg), Path(lp)))

\* The basic escape check: str(rendered_path).startswith(str(static_path))
EscapeCheckPasses(cfg, lp) ==
    StartsWith(Str(RenderedPath(cfg, lp)), Str(StaticPath(cfg)))

\* rendered_path.is_file()
IsFile(fs, rp) == Loc(rp) \in DOMAIN fs /\ fs[Loc(rp)].exists

\* rendered_path in STATIC_RENDERED and rendered_path.is_file()
CacheHitInverted(tracked, fs, rp) == ~(Str(rp) \in tracked) /\ IsFile(fs, rp)

CacheHit(tracked, fs, rp) == Str(rp) \in tracked /\ IsFile(fs, rp)

\* The request returns content it rendered itself.
Rendered(p, lp, c) ==
    /\ pc' = [pc EXCEPT ![p] = "done"]
    /\ path' = [path EXCEPT ![p] = lp]
    /\ content' = [content EXCEPT ![p] = c]
    /\ resp' = [resp EXCEPT ![p] = Body(c)]
    /\ UNCHANGED <<destpath, extra_paranoia, buf, tmpname, exc, pre>>

\* render_static_template(path), to the point where it returns, sends the
\* cached file or enters safe_writer.
CacheRequest(p, lp) ==
    /\ pc[p] = "idle"
    /\ \/ /\ debug
          /\ \E c \in RenderOutputs : Rendered(p, lp, c)
       \/ /\ ~debug
          /\ config = None
          /\ \E c \in RenderOutputs : Rendered(p, lp, c)
       \/ /\ ~debug
          /\ config # None
          /\ ~EscapeCheckPasses(config, lp)
          /\ \E c \in RenderOutputs : Rendered(p, lp, c)
       \/ /\ ~debug
          /\ config # None
          /\ EscapeCheckPasses(config, lp)
          /\ CacheHit(STATIC_RENDERED, dest, RenderedPath(config, lp))
          /\ pc' = [pc EXCEPT ![p] = "send"]
          /\ path' = [path EXCEPT ![p] = lp]
          /\ destpath' = [destpath EXCEPT ![p] = RenderedPath(config, lp)]
          /\ UNCHANGED <<content, extra_paranoia, buf, tmpname, exc, resp, pre>>
       \/ /\ ~debug
          /\ config # None
          /\ EscapeCheckPasses(config, lp)
          /\ ~CacheHit(STATIC_RENDERED, dest, RenderedPath(config, lp))
          /\ path' = [path EXCEPT ![p] = lp]
          /\ \E c \in RenderOutputs : SwEnter(p, RenderedPath(config, lp), c, FALSE)
          /\ UNCHANGED <<resp, pre>>
    /\ UNCHANGED <<fsVars, lastRename, cacheVars, ncrash, nfail, queryVars>>

\* send_file(str(rendered_path), ...): the file is opened and read; it raises
\* when the file has gone since is_file().
SendFile(p) ==
    /\ pc[p] = "send"
    /\ LET f == dest[Loc(destpath[p])]
       IN  resp' = [resp EXCEPT ![p] = IF f.exists THEN Body(f.data) ELSE NotFound]
    /\ pc' = [pc EXCEPT ![p] = "done"]
    /\ UNCHANGED <<path, destpath, content, extra_paranoia, buf, tmpname, exc, pre,
                   fsVars, lastRename, cacheVars, ncrash, nfail, queryVars>>

\* except IOError: pass / else: STATIC_RENDERED.add(rendered_path)
TrackedAlways(tracked, rp, outcome) == tracked \cup {Str(rp)}

Tracked(tracked, rp, outcome) ==
    IF outcome = "sw_ok" THEN tracked \cup {Str(rp)} ELSE tracked

\* safe_writer is left: the IOError is swallowed or the path is tracked, and
\* the rendered content is returned.
CacheAfterWrite(p) ==
    /\ pc[p] \in {"sw_ok", "sw_err"}
    /\ STATIC_RENDERED' = Tracked(STATIC_RENDERED, destpath[p], pc[p])
    /\ persisted' = IF pc[p] = "sw_ok" THEN persisted \cup {path[p]} ELSE persisted
    /\ resp' = [resp EXCEPT ![p] = Body(content[p])]
    /\ pc' = [pc EXCEPT ![p] = "done"]
    /\ UNCHANGED <<path, destpath, content, extra_paranoia, buf, tmpname, exc, pre,
                   fsVars, lastRename, debug, config, npurge, ncrash, nfail, queryVars>>

\* The response is sent; the request's locals are gone.
CacheReturn(p) ==
    /\ pc[p] = "done"
    /\ Forget(p)
    /\ UNCHANGED <<fsVars, lastRename, cacheVars, ncrash, nfail, queryVars>>

\* A file is removed from outside the process (a purge of the cache).
Purge(l) ==
    /\ npurge < MaxPurges
    /\ dest[l].exists
    /\ npurge' = npurge + 1
    /\ dest' = [dest EXCEPT ![l] = Absent]
    /\ lastRename' = [lastRename EXCEPT ![l] = None]
    /\ UNCHANGED <<destDur, tmp, procVars, debug, config, STATIC_RENDERED,
                   persisted, ncrash, nfail, queryVars>>

Init ==
    /\ ProcInit /\ FsInit /\ QueryIdle
    /\ debug \in BOOLEAN
    /\ config \in CacheRoots
    /\ STATIC_RENDERED = {}
    /\ persisted = {}
    /\ npurge = 0

\* Requests handled one at a time, start to finish, by one worker.
Next ==
    \/ \E lp \in LogicalPaths : CacheRequest(Main, lp)
    \/ SendFile(Main)
    \/ SafeWriterStep(Main)
    \/ CacheAfterWrite(Main)
    \/ CacheReturn(Main)
    \/ \E l \in Locs : Purge(l)

Spec == Init /\ [][Next]_vars

\* Concurrent requests for one page, outside debug mode, with a cache root.
RacePath == <<"a">>

RaceInit ==
    /\ Init
    /\ ~debug
    /\ config = Some(<<"/", "c">>)

RaceNext ==
    \/ \E p \in Procs : CacheRequest(p, RacePath)
    \/ \E p \in Procs : SendFile(p)
    \/ \E p \in Procs : SafeWriterStep(p)
    \/ \E p \in Procs : CacheAfterWrite(p)
    \/ \E p \in Procs : CacheReturn(p)
    \/ Purge(Loc(RenderedPath(config, RacePath)))

SpecRace == RaceInit /\ [][RaceNext]_vars

(***************************************************************************)
(* A caller of safe_writer, the kernel and the machine                     *)
(***************************************************************************)

\* with safe_writer(destpath, extra_paranoia=...) as f: f.write(content)
WriterCall(d, c, paranoia) ==
    /\ pc[Main] = "idle"
    /\ SwEnter(Main, d, c, paranoia)
    /\ pre' = [pre EXCEPT ![Main] = dest[Loc(d)]]
    /\ UNCHANGED <<fsVars, lastRename, path, resp, cacheVars, ncrash, nfail, queryVars>>

\* The with statement is left, by return or by the exception.
WriterExit ==
    /\ pc[Main] \in {"sw_ok", "sw_err"}
    /\ Forget(Main)
    /\ UNCHANGED <<fsVars, lastRename, cacheVars, ncrash, nfail, queryVars>>

\* The kernel writes a directory entry back on its own schedule.
OsWriteback(l) ==
    /\ destDur[l] # dest[l]
    /\ destDur' = [destDur EXCEPT ![l] = dest[l]]
    /\ UNCHANGED <<dest, tmp, lastRename, procVars, cacheVars, ncrash, nfail, queryVars>>

\* What a crash leaves of a file: what was on the disk, and possibly more of
\* what the kernel held.
AfterCrash(f) ==
    IF f.exists
    THEN {File(b) : b \in {x \in Prefixes(f.data) : Len(x) >= Len(f.dur)}}
    ELSE {Absent}

\* The process dies or the machine loses power: the process's memory is gone,
\* each directory entry is the one on the disk or the newer one, each
\* temporary file is there or not.
Crash ==
    /\ ncrash < MaxCrashes
    /\ ncrash' = ncrash + 1
    /\ dest' \in {d \in [Locs -> UNION {AfterCrash(dest[l]) \cup AfterCrash(destDur[l]) : l \in Locs}] :
                    \A l \in Locs : d[l] \in AfterCrash(dest[l]) \cup AfterCrash(destDur[l])}
    /\ destDur' = dest'
    /\ tmp' \in {t \in [TmpNames -> UNION {AfterCrash(tmp[n]) \cup {Absent} : n \in TmpNames}] :
                    \A n \in TmpNames : t[n] \in AfterCrash(tmp[n]) \cup {Absent}}
    /\ Forget(Main)
    /\ lastRename' = [l \in Locs |-> None]
    /\ UNCHANGED <<cacheVars, nfail, queryVars>>

\* The destination the caller writes to.
WriterDest == <<"/", "c", "/", "a">>

WriterInit ==
    /\ ProcInit /\ FsInit /\ CacheIdle /\ QueryIdle

WriterNext ==
    \/ \E c \in RenderOutputs, paranoia \in BOOLEAN :
         WriterCall(Path(WriterDest), c, paranoia)
    \/ SafeWriterStep(Main)
    \/ WriterExit
    \/ \E l \in Locs : OsWriteback(l)
    \/ Crash

SpecWriter == WriterInit /\ [][WriterNext]_vars

(***************************************************************************)
(* The MUC table                                                           *)
(***************************************************************************)

MaxRows == 120
MaxPage == 4

Digit(n) == <<"0", "1", "2", "3", "4", "5", "6", "7", "8", "9">>[n + 1]

\* The table as the crawler left it. The address of row i starts with a
\* serial number of fixed width, so addresses sort as the row numbers do.
\* listed: the MUC has a PubliclyListedMUC row (the join keeps only those).
Table ==
    [i \in 1..MaxRows |->
        [address |-> <<Digit(i \div 100), Digit((i \div 10) % 10), Digit(i % 10),
                       "@", "m", "u", "c">>,
         is_open |-> i % 20 # 6,
         is_hidden |-> i % 20 = 3,
         listed |-> i % 20 # 9,
         nusers_moving_average |-> i % 4,
         name |-> IF i % 3 = 0 THEN <<"C", "h", "a", "t">> ELSE <<"R", "o", "o", "m">>,
         description |-> IF i % 4 = 1 THEN <<>> ELSE <<"t", "a", "l", "k">>]]

Row(i) == Table[i]

\* The values nusers_moving_average takes in the table, highest first.
AveragesDescending == <<3, 2, 1, 0>>

\* The rows of the table by address.
TableRows(n) == [i \in 1..n |-> i]

(***************************************************************************)
(* base_query, common_query, room_page                                     *)
(***************************************************************************)

\* base_query: the join, is_open unless include_closed, not is_hidden.
BaseQuery(n, include_closed) ==
    LET Keep(i) == /\ Row(i).listed
                   /\ (include_closed \/ Row(i).is_open)
                   /\ ~Row(i).is_hidden
    IN  SelectSeq(TableRows(n), Keep)

RECURSIVE OrderByAverage(_, _)
\* ORDER BY nusers_moving_average DESC, address ASC of rows given by address.
OrderByAverage(rows, k) ==
    IF k > Len(AveragesDescending) THEN <<>>
    ELSE LET Keep(i) == Row(i).nusers_moving_average = AveragesDescending[k]
         IN  SelectSeq(rows, Keep) \o OrderByAverage(rows, k + 1)

\* common_query: the filter on min_users when it is positive, and the order.
CommonQuery(n, min_users, include_closed) ==
    LET Keep(i) == min_users > 0 => Row(i).nusers_moving_average > min_users
    IN  OrderByAverage(SelectSeq(BaseQuery(n, include_closed), Keep), 1)

\* q.offset(o).limit(l) for o >= 0
OffsetLimit(rows, o, l) ==
    SubSeq(rows, o + 1, IF o + l < Len(rows) THEN o + l ELSE Len(rows))

\* The page number room_page puts in the Page.
ClampedPageNumber(page, pages) ==
    IF page < 1 THEN 1 ELSE IF page > pages /\ pages > 0 THEN pages ELSE page

PageNumber(page, pages) == page

\* room_page(page, per_page, include_closed). A negative OFFSET is an error
\* for one database and zero for another: negative_offset says which.
RoomPage(n, page, per_page, include_closed, negative_offset) ==
    LET q == CommonQuery(n, 1, include_closed)
        total == Len(q)
        pages == (total + per_page - 1) \div per_page
        o == (page - 1) * per_page
    IN  IF o < 0 /\ negative_offset = "error"
        THEN [kind |-> "error"]
        ELSE [kind |-> "page",
              has_prev |-> page > 1,
              has_next |-> page < pages,
              page |-> PageNumber(page, pages),
              pages |-> pages,
              total |-> total,
              items |-> OffsetLimit(q, IF o < 0 THEN 0 ELSE o, per_page)]

\* per_page as room_list and api_rooms_unsafe pass it.
PerPageList == 25
PerPageApi == 200

(***************************************************************************)
(* perform_search                                                          *)
(***************************************************************************)

UpperCase == <<"A", "B", "C", "D", "E", "F", "G", "H", "I", "J", "K", "L", "M",
               "N", "O", "P", "Q", "R", "S", "T", "U", "V", "W", "X", "Y", "Z">>
LowerCase == <<"a", "b", "c", "d", "e", "f", "g", "h", "i", "j", "k", "l", "m",
               "n", "o", "p", "q", "r", "s", "t", "u", "v", "w", "x", "y", "z">>

Lower(c) ==
    IF \E k \in 1..26 : UpperCase[k] = c
    THEN LowerCase[CHOOSE k \in 1..26 : UpperCase[k] = c]
    ELSE c

RECURSIVE ILike(_, _)
\* text ILIKE pattern: % is any text, _ any character, letters without case.
ILike(text, pattern) ==
    IF pattern = <<>> THEN text = <<>>
    ELSE IF pattern[1] = "%"
         THEN ILike(text, Tail(pattern)) \/ (text # <<>> /\ ILike(Tail(text), pattern))
         ELSE /\ text # <<>>
              /\ (pattern[1] = "_" \/ Lower(pattern[1]) = Lower(text[1]))
              /\ ILike(Tail(text), Tail(pattern))

Quotes == {"'", "\""}

RECURSIVE ShlexBalanced(_, _, _)
\* Whether shlex.split finds every quotation closed (else ValueError).
ShlexBalanced(s, i, quote) ==
    IF i > Len(s) THEN quote = ""
    ELSE IF quote # "" THEN ShlexBalanced(s, i + 1, IF s[i] = quote THEN "" ELSE quote)
    ELSE ShlexBalanced(s, i + 1, IF s[i] \in Quotes THEN s[i] ELSE "")

RECURSIVE ShlexTokens(_, _, _, _, _)
\* shlex.split of a text without backslashes: words part at blanks outside
\* quotations; the quotes themselves are dropped.
ShlexTokens(s, i, quote, cur, started) ==
    IF i > Len(s) THEN (IF started THEN <<cur>> ELSE <<>>)
    ELSE IF quote # ""
         THEN IF s[i] = quote
              THEN ShlexTokens(s, i + 1, "", cur, TRUE)
              ELSE ShlexTokens(s, i + 1, quote, Append(cur, s[i]), TRUE)
    ELSE IF s[i] = " "
         THEN (IF started THEN <<cur>> ELSE <<>>) \o ShlexTokens(s, i + 1, "", <<>>, FALSE)
    ELSE IF s[i] \in Quotes
         THEN ShlexTokens(s, i + 1, s[i], cur, TRUE)
    ELSE ShlexTokens(s, i + 1, "", Append(cur, s[i]), TRUE)

RECURSIVE Strip(_)
\* str.strip()
Strip(s) ==
    IF s = <<>> THEN s
    ELSE IF s[1] = " " THEN Strip(Tail(s))
    ELSE IF s[Len(s)] = " " THEN Strip(SubSeq(s, 1, Len(s) - 1))
    ELSE s

\* The keyword set: the stripped tokens of 3 characters or more.
Keywords(query_string) ==
    LET tokens == ShlexTokens(query_string, 1, "", <<>>, FALSE)
    IN  {k \in {Strip(tokens[j]) : j \in 1..Len(tokens)} : Len(k) >= 3}

\* The query strings tried.
QueryStrings ==
    { <<"a", "b", " ", "c", "d">>,
      <<"m", "u", "c">>,
      <<"m", "u", "c", " ", "C", "H", "A">>,
      <<"t", "a", "l", " ", " ", "m", "u", "c", " ", "t", "a", "l">>,
      <<"c", "_", "a">>,
      <<"'", "a", " ", "b", "'", " ", "m", "u", "c">>,
      <<"'", " ", "u", "c", " ", "'">>,
      <<"\"", "a", "b">>,
      <<"m", "u", "c", " ", "@", "m", "u", " ", "u", "c", "%", " ", "h", "a", "t",
        " ", "c", "h", "a">>,
      <<"a", "a", "a", " ", "b", "b", "b", " ", "c", "c", "c", " ", "d", "d", "d",
        " ", "e", "e", "e", " ", "f", "f", "f">> }

\* Every keyword the query strings tried yield.
KeywordPool == UNION {Keywords(q) : q \in QueryStrings}

\* The ilike conditions of lines 306, 311 and 316, evaluated once for every
\* keyword of the query strings tried and every row.
Likes ==
    [keyword \in KeywordPool |->
        [i \in 1..MaxRows |->
            LET pattern == <<"%">> \o keyword \o <<"%">>
            IN  [address |-> ILike(Row(i).address, pattern),
                 description |-> ILike(Row(i).description, pattern),
                 name |-> ILike(Row(i).name, pattern)]]]

\* One keyword's condition on a row: the OR over the enabled fields.
Conditional(i, keyword, search_address, search_description, search_name) ==
    \/ search_address /\ Likes[keyword][i].address
    \/ search_description /\ Likes[keyword][i].description
    \/ search_name /\ Likes[keyword][i].name

\* The length beyond which the results are cut, and q.limit(101).
MaxResults == 100

LimitAtMaxResults == MaxResults

QueryLimit == 101

\* q.limit(l)
Limit(rows, l) == SubSeq(rows, 1, IF l < Len(rows) THEN l ELSE Len(rows))

\* perform_search(query_string, search_address, search_description, search_name)
PerformSearch(n, query_string, search_address, search_description, search_name) ==
    IF ~(search_address \/ search_description \/ search_name)
    THEN [kind |-> "search", flags |-> {"no_keywords"}, results |-> None, keywords |-> None]
    ELSE IF ~ShlexBalanced(query_string, 1, "")
    THEN [kind |-> "error"]
    ELSE LET keywords == Keywords(query_string)
         IN  IF Cardinality(keywords) > 5
             THEN [kind |-> "search", flags |-> {"too_many_keywords"},
                   results |-> None, keywords |-> None]
             ELSE IF keywords = {}
             THEN [kind |-> "search", flags |-> {"no_keywords"},
                   results |-> None, keywords |-> None]
             ELSE LET Keep(i) == \A k \in keywords :
                                   Conditional(i, k, search_address,
                                               search_description, search_name)
                      results == Limit(SelectSeq(CommonQuery(n, 0, FALSE), Keep),
                                       QueryLimit)
                  IN  IF Len(results) > MaxResults
                      THEN [kind |-> "search", flags |-> {"too_many_results"},
                            results |-> Some(SubSeq(results, 1, MaxResults)),
                            keywords |-> Some(keywords)]
                      ELSE [kind |-> "search", flags |-> {},
                            results |-> Some(results), keywords |-> Some(keywords)]

(***************************************************************************)
(* The calls of room_page and perform_search                               *)
(***************************************************************************)

RoomPageCall(page, per_page, include_closed, negative_offset) ==
    /\ op = "none"
    /\ op' = "room_page"
    /\ args' = <<page, per_page, include_closed>>
    /\ result' = RoomPage(nrows, page, per_page, include_closed, negative_offset)
    /\ UNCHANGED <<nrows, fsVars, procVars, cacheVars, lastRename, ncrash, nfail>>

PerformSearchCall(query_string, search_address, search_description, search_name) ==
    /\ op = "none"
    /\ op' = "perform_search"
    /\ args' = <<query_string, search_address, search_description, search_name>>
    /\ result' = PerformSearch(nrows, query_string, search_address,
                               search_description, search_name)
    /\ UNCHANGED <<nrows, fsVars, procVars, cacheVars, lastRename, ncrash, nfail>>

\* The caller has its result.
QueryReturn ==
    /\ op # "none"
    /\ op' = "none"
    /\ args' = <<>>
    /\ result' = <<>>
    /\ UNCHANGED <<nrows, fsVars, procVars, cacheVars, lastRename, ncrash, nfail>>

QueryInit ==
    /\ ProcInit /\ FsInit /\ CacheIdle
    /\ dest = [l \in Locs |-> File(OldContent)]
    /\ nrows \in 0..MaxRows
    /\ op = "none"
    /\ args = <<>>
    /\ result = <<>>

QueryNext ==
    \/ \E page \in -1..MaxPage, per_page \in {PerPageList, PerPageApi},
          include_closed \in BOOLEAN, negative_offset \in {"error", "zero"} :
         RoomPageCall(page, per_page, include_closed, negative_offset)
    \/ \E query_string \in QueryStrings,
          search_address \in BOOLEAN, search_description \in BOOLEAN,
          search_name \in BOOLEAN :
         PerformSearchCall(query_string, search_address, search_description,
                           search_name)
    \/ QueryReturn

SpecQuery == QueryInit /\ [][QueryNext]_vars

(***************************************************************************)
(* The atomic writer: C1, C2, C6, C10 (under SpecWriter)                   *)
(***************************************************************************)

InSafeWriter == {"open", "body", "flush", "fsync", "replace"}

\* C1: when the caller's write raises inside the with statement, the failure
\* leaves safe_writer (it does not return), the destination is what it was
\* when safe_writer was entered, and the temporary file of the call is gone.
C1_FailedWriteLeavesNoTrace ==
    \A p \in Procs :
        exc[p] = "body" =>
            /\ pc[p] = "sw_err"
            /\ dest[Loc(destpath[p])] = pre[p]
            /\ ~tmp[tmpname[p]].exists

C1_Witness ==
    /\ pc[Main] = "sw_err"
    /\ exc[Main] = "body"
    /\ pre[Main].exists
    /\ dest[Loc(destpath[Main])] = File(OldContent)

\* C2: the destination is never a partial file, in the directory the kernel
\* shows and in the one a crash leaves: it is absent or holds complete content
\* that is on the disk. While safe_writer runs, and when it raises, the
\* destination is what it was at entry; the temporary file is flushed and on
\* the disk before the rename; after a return the destination holds the bytes
\* supplied.
C2_DestinationNeverPartial ==
    /\ \A l \in Locs :
          /\ dest[l].exists => dest[l].data \in Complete /\ dest[l].dur = dest[l].data
          /\ destDur[l].exists =>
                destDur[l].data \in Complete /\ destDur[l].dur = destDur[l].data
    /\ \A p \in Procs :
          /\ pc[p] \in InSafeWriter \cup {"sw_err"} => dest[Loc(destpath[p])] = pre[p]
          /\ pc[p] = "replace" => tmp[tmpname[p]] = File(content[p])
          /\ pc[p] = "sw_ok" => dest[Loc(destpath[p])] = File(content[p])

\* A crash struck after a rename, and the destination holds the new content.
C2_Witness ==
    /\ ncrash > 0
    /\ lastRename[WriterDest] = None
    /\ dest[WriterDest].exists
    /\ dest[WriterDest].data \in RenderOutputs

\* C6: when safe_writer returns from a call with extra_paranoia, the directory
\* entry of the destination is on the disk, so that a crash after the return
\* shows the new file.
C6_DirectorySyncedBeforeReturn ==
    \A p \in Procs :
        pc[p] = "sw_ok" /\ extra_paranoia[p] =>
            destDur[Loc(destpath[p])] = dest[Loc(destpath[p])]

\* C10: when safe_writer is left without a crash, by return or by a failure
\* of any of its steps, no temporary file of the call remains.
C10_NoTemporaryFileLeft ==
    \A p \in Procs :
        pc[p] \in {"sw_ok", "sw_err"} /\ tmpname[p] # 0 => ~tmp[tmpname[p]].exists

(***************************************************************************)
(* The static page cache: C3, C4, C5 (under Spec), C9 (under SpecRace)     *)
(***************************************************************************)

\* C3: a request whose path resolves to a file outside the cache root goes
\* straight to the rendering callback: it never sends a cached file, never
\* enters safe_writer, and its path is never tracked.
C3_OutsidePathsBypassCache ==
    \A lp \in LogicalPaths :
        (config # None /\ ~Inside(RenderedPath(config, lp), StaticPath(config))) =>
            /\ \A p \in Procs : path[p] = lp => pc[p] = "done" /\ tmpname[p] = 0
            /\ Str(RenderedPath(config, lp)) \notin STATIC_RENDERED

\* C4: outside debug mode, a request for a path that a finished request has
\* persisted, made while the cached file exists, sends the file and calls no
\* render; what it returns is the content last persisted. In debug mode every
\* request renders, returns what it rendered and touches neither the files
\* nor the tracked set.
C4_CachedPageServedWithoutRender ==
    [][/\ \A lp \in LogicalPaths :
            (pc[Main] = "idle" /\ pc'[Main] # "idle" /\ path'[Main] = lp) =>
                /\ debug =>
                      /\ pc'[Main] = "done"
                      /\ content'[Main] \in RenderOutputs
                      /\ resp'[Main] = Body(content'[Main])
                      /\ UNCHANGED <<fsVars, STATIC_RENDERED>>
                /\ (/\ ~debug
                    /\ config # None
                    /\ lp \in persisted
                    /\ dest[Loc(RenderedPath(config, lp))].exists) =>
                      pc'[Main] = "send" /\ content'[Main] = <<>>
       /\ (/\ pc[Main] = "send"
           /\ pc'[Main] = "done"
           /\ dest[Loc(destpath[Main])].exists) =>
             /\ lastRename[Loc(destpath[Main])] # None
             /\ resp'[Main] = Body(lastRename[Loc(destpath[Main])][1])
             /\ content'[Main] = <<>>
      ]_vars

\* A request answered from the cached file, with no render.
C4_Witness ==
    /\ pc[Main] = "done"
    /\ path[Main] \in persisted
    /\ content[Main] = <<>>
    /\ resp[Main].kind = "body"
    /\ resp[Main].body \in RenderOutputs

\* C5: when the persist step fails, the request returns what it rendered and
\* the tracked set stays as it is; a path enters the tracked set only when a
\* request leaves safe_writer by a return, for that request's path; the
\* tracked set never loses a member.
C5_FailedPersistIsSilent ==
    [][/\ STATIC_RENDERED \subseteq STATIC_RENDERED'
       /\ \A t \in STATIC_RENDERED' \ STATIC_RENDERED :
             \E p \in Procs :
                /\ pc[p] = "sw_ok"
                /\ pc'[p] = "done"
                /\ t = Str(destpath[p])
       /\ \A p \in Procs :
             (pc[p] = "sw_err" /\ pc'[p] = "done") =>
                /\ resp'[p] = Body(content[p])
                /\ content[p] \in RenderOutputs
                /\ STATIC_RENDERED' = STATIC_RENDERED
      ]_vars

\* A request whose persist step failed has returned its content, untracked.
C5_Witness ==
    /\ pc[Main] = "done"
    /\ exc[Main] # "none"
    /\ resp[Main] = Body(content[Main])
    /\ Str(destpath[Main]) \notin STATIC_RENDERED

\* C9: with requests for one page racing, every request returns the complete
\* output of one render call (or fails because the file was removed from
\* outside under it); the destination never holds torn or mixed content; two
\* writers never share a temporary file; and when all requests have finished
\* the destination holds the content of the writer that renamed last.
C9_RacingRequestsNeverTear ==
    /\ \A p \in Procs :
          pc[p] = "done" =>
             \/ resp[p].kind = "body" /\ resp[p].body \in RenderOutputs
             \/ resp[p] = NotFound /\ npurge > 0
    /\ \A l \in Locs : dest[l].exists => dest[l].data \in Complete
    /\ \A p, q \in Procs :
          (p # q /\ pc[p] \in InSafeWriter /\ pc[q] \in InSafeWriter /\ tmpname[p] # 0) =>
             tmpname[p] # tmpname[q]
    /\ (\A p \in Procs : pc[p] \in {"idle", "done"}) =>
          \A l \in Locs : lastRename[l] # None => dest[l] = File(lastRename[l][1])

\* Two requests rendered different content and both renamed it onto the page.
C9_Witness ==
    /\ \A p \in Procs : pc[p] = "done" /\ exc[p] = "none" /\ tmpname[p] # 0
    /\ content["p1"] # content["p2"]
    /\ dest[Loc(destpath["p1"])].exists

(***************************************************************************)
(* room_page and perform_search: C7, C8 (under SpecQuery)                  *)
(***************************************************************************)

\* C7 as stated: for a page number outside 1..pages the Page keeps the page
\* number and has has_prev false, has_next false and no items.
C7_OutOfRangePageIsBlank ==
    (op = "room_page" /\ result.kind = "page" /\ args[1] \notin 1..result.pages) =>
        /\ result.page = args[1]
        /\ ~result.has_prev
        /\ ~result.has_next
        /\ result.items = <<>>

\* C7 as amended: for a page number outside 1..pages the Page keeps the page
\* number; above pages, has_next is false and there are no items, and has_prev
\* is true exactly when the page number exceeds 1; below 1, has_prev is false
\* and has_next is true exactly when the page number is below pages.
C7_OutOfRangePageKeepsNumber ==
    (op = "room_page" /\ result.kind = "page" /\ args[1] \notin 1..result.pages) =>
        /\ result.page = args[1]
        /\ args[1] > result.pages =>
              /\ ~result.has_next
              /\ result.items = <<>>
              /\ result.has_prev = (args[1] > 1)
        /\ args[1] < 1 =>
              /\ ~result.has_prev
              /\ result.has_next = (args[1] < result.pages)

\* A page beyond the last one, reporting a previous page.
C7_Witness ==
    /\ op = "room_page"
    /\ result.kind = "page"
    /\ result.pages >= 1
    /\ args[1] > result.pages
    /\ result.has_prev

\* Row i comes before row j in the order of the query.
Before(i, j) ==
    \/ Row(i).nusers_moving_average > Row(j).nusers_moving_average
    \/ /\ Row(i).nusers_moving_average = Row(j).nusers_moving_average
       /\ i < j

\* r holds the first c rows of the set M in the order of the query.
IsFirst(r, M, c) ==
    /\ Len(r) = c
    /\ \A k \in 1..Len(r) : r[k] \in M
    /\ \A k \in 1..(Len(r) - 1) : Before(r[k], r[k + 1])
    /\ \A m \in M : (\E k \in 1..Len(r) : r[k] = m) \/ (Len(r) > 0 /\ Before(r[Len(r)], m))

\* C8: a search with a field selector enabled and 1 to 5 keywords returns,
\* when 101 or more rows match, the flag too_many_results, the first 100
\* matches in the order of the query and the keyword set, and otherwise no
\* flag, all matches and the keyword set; no search returns more than 100.
C8_SearchResultsCutAtHundred ==
    (op = "perform_search" /\ result.kind = "search") =>
        LET kw == Keywords(args[1])
            M == {i \in 1..nrows :
                    /\ Row(i).listed /\ Row(i).is_open /\ ~Row(i).is_hidden
                    /\ \A k \in kw : Conditional(i, k, args[2], args[3], args[4])}
        IN  /\ ((args[2] \/ args[3] \/ args[4]) /\ Cardinality(kw) \in 1..5) =>
                  /\ result.keywords = Some(kw)
                  /\ result.results # None
                  /\ IF Cardinality(M) >= 101
                     THEN /\ result.flags = {"too_many_results"}
                          /\ IsFirst(result.results[1], M, 100)
                     ELSE /\ result.flags = {}
                          /\ IsFirst(result.results[1], M, Cardinality(M))
            /\ result.results # None => Len(result.results[1]) <= 100

\* A search that 101 or more rows match.
C8_Witness ==
    /\ op = "perform_search"
    /\ result.kind = "search"
    /\ result.flags = {"too_many_results"}
    /\ Len(result.results[1]) = 100
    /\ result.results[1][1] # 1

====
